---- MODULE Spec2Model ----
(***************************************************************************)
(* Model of the two-asset liquidity pool engine of KBryan/VPAI2:           *)
(*   NebuPool              (src/unnamed/part_001)                          *)
(*   NebulaLiquidityToken  (src/src/contracts/swap/NebulaLiquidityToken.sol)*)
(*   NebuSwap, the registry of pools  (src/unnamed/part_000)               *)
(* Every external call of NebuPool runs as one EVM transaction: a revert   *)
(* anywhere in the call discards every effect of the call, the token       *)
(* transfers it made included.  The ERC20 tokens of the pair are external  *)
(* contracts: each transfer either moves the amount and returns true,      *)
(* returns false without moving anything, or reverts.                      *)
(* The ledger is an OpenZeppelin ERC20 with AccessControl: mint and burn   *)
(* are open to the holders of DEFAULT_ADMIN_ROLE, which the constructor    *)
(* grants to the account that deploys the ledger, the pool.                *)
(* Amounts are uint256; the values explored here stay far below 2^256, so  *)
(* the checked-arithmetic overflow reverts are never taken and are left    *)
(* out.  Underflow and division by zero reverts are modelled.              *)
(***************************************************************************)
EXTENDS Integers, Sequences, FiniteSets, TLC

\* ---------------------------------------------------------------- bounds
MaxAmount == 3
MaxEvents == 2
InitBalance == 3

\* ------------------------------------------------------------- universe
token1 == "T1"
token2 == "T2"
OtherToken == "T3"
Tokens == {token1, token2}
AnyToken == {token1, token2, OtherToken}
Pool == "pool"
Users == {"alice", "bob"}
Accounts == Users \cup {Pool}
Amounts == 0..MaxAmount
Outcomes == {"ok", "false", "revert"}

VARIABLES reserve1, reserve2, constantK, totalSupply, balances, admins, tokenBalance,
          nEvents, getPair, allPairs, pools, frame, last

vars == <<reserve1, reserve2, constantK, totalSupply, balances, admins, tokenBalance,
          nEvents, getPair, allPairs, pools, frame, last>>

poolVars == <<reserve1, reserve2, constantK, totalSupply, balances, admins, tokenBalance>>
registryVars == <<getPair, allPairs, pools>>

\* The contract state (pool, its ledger, the two tokens' books) as one value,
\* so that a call can be computed step by step and discarded on a revert.
Cur ==
  [reserve1 |-> reserve1, reserve2 |-> reserve2, constantK |-> constantK,
   totalSupply |-> totalSupply, balances |-> balances, admins |-> admins,
   tokenBalance |-> tokenBalance]

\* ------------------------------------------------------- pure helpers
Min(a, b) == IF a <= b THEN a ELSE b

\* Math.sqrt: floor of the square root
Sqrt(n) == CHOOSE r \in 0..n : r * r <= n /\ (r + 1) * (r + 1) > n

Event(kind, who, x, y, z) == [kind |-> kind, who |-> who, x |-> x, y |-> y, z |-> z]

\* outcome of a call (one transaction): the state it leaves, its status ("ok"
\* or the revert reason), what it returned or paid out, and the events in its
\* receipt
Result(s, status, out1, out2, logs) ==
  [st |-> s, status |-> status, out1 |-> out1, out2 |-> out2, logs |-> logs]

\* a revert: the state the call started from, untouched, and an empty receipt
Revert(s0, reason) == Result(s0, reason, 0, 0, << >>)

\* ------------------------------------------------------------- gateway
\* what an ERC20 transfer of amt out of account from does, given the
\* behaviour oc the token chooses; a token cannot move what from does not hold
Effective(tb, token, from, amt, oc) ==
  IF oc = "ok" /\ tb[token][from] < amt THEN "revert" ELSE oc

Move(tb, token, from, to, amt) ==
  [tb EXCEPT ![token][from] = @ - amt, ![token][to] = @ + amt]

\* books after the transfer: moved on "ok", untouched otherwise
Transfer(tb, token, from, to, amt, oc) ==
  IF Effective(tb, token, from, amt, oc) = "ok" THEN Move(tb, token, from, to, amt) ELSE tb

\* -------------------------------------------------------------- ledger
mint_balanceOnly(s, to, amount) == [s EXCEPT !.balances[to] = @ + amount]

HasRole_anyone(s, account) == TRUE

\* onlyRole(DEFAULT_ADMIN_ROLE) on mint and burn (lines 12 and 17): the
\* caller must hold the role
HasRole(s, account) == account \in s.admins

mint(s, to, amount) ==
  [s EXCEPT !.balances[to] = @ + amount, !.totalSupply = @ + amount]

burn_balanceOnly(s, from, amount) ==
  [s EXCEPT !.balances[from] = @ - amount]

burn(s, from, amount) ==
  [s EXCEPT !.balances[from] = @ - amount, !.totalSupply = @ - amount]

SufficientShares_supplyOnly(s, from, amount) == s.totalSupply >= amount

\* the balance check ERC20's _burn makes for burn (line 18): burning more than
\* from holds reverts with ERC20InsufficientBalance
SufficientShares(s, from, amount) == s.balances[from] >= amount

\* ---------------------------------------------------------------- pool
updateConstantFormula_stale(s) == s

updateConstantFormula_nonZeroOnly(s) ==
  IF s.reserve1 = 0 \/ s.reserve2 = 0 THEN s
  ELSE [s EXCEPT !.constantK = s.reserve1 * s.reserve2]

updateConstantFormula(s) ==
  IF s.reserve1 = 0 \/ s.reserve2 = 0
  THEN [s EXCEPT !.constantK = 0]
  ELSE [s EXCEPT !.constantK = s.reserve1 * s.reserve2]

\* the value of a uint256 subtraction, or the revert of checked arithmetic
Returned(s, difference) ==
  IF difference < 0 THEN Revert(s, "subtraction underflow")
  ELSE Result(s, "ok", difference, 0, << >>)

getExpectedOutput_anyToken(s, fromToken, amountIn) ==
  IF ~(amountIn > 0) THEN Revert(s, "AmountIn must be greater than 0")
  ELSE IF fromToken = token1
  THEN Returned(s, s.reserve2 - (s.constantK \div (s.reserve1 + amountIn)))
  ELSE Returned(s, s.reserve1 - (s.constantK \div (s.reserve2 + amountIn)))

getExpectedOutput(s, fromToken, amountIn) ==
  IF ~(amountIn > 0) THEN Revert(s, "AmountIn must be greater than 0")
  ELSE IF ~(fromToken = token1 \/ fromToken = token2) THEN Revert(s, "Invalid fromToken")
  ELSE IF fromToken = token1
  THEN Returned(s, s.reserve2 - (s.constantK \div (s.reserve1 + amountIn)))
  ELSE Returned(s, s.reserve1 - (s.constantK \div (s.reserve2 + amountIn)))

InitialLiquidity_product(amountToken1, amountToken2) == amountToken1 * amountToken2

InitialLiquidity_sum(amountToken1, amountToken2) == amountToken1 + amountToken2

\* first deposit (lines 75-80): shares minted and the reserves set
InitialLiquidity(amountToken1, amountToken2) == Sqrt(amountToken1 * amountToken2)

ProportionalLiquidity_max(s, amountToken1, amountToken2) ==
  LET liquidityFromToken1 == (amountToken1 * s.totalSupply) \div s.reserve1
      liquidityFromToken2 == (amountToken2 * s.totalSupply) \div s.reserve2
  IN IF liquidityFromToken1 >= liquidityFromToken2 THEN liquidityFromToken1
     ELSE liquidityFromToken2

ProportionalLiquidity_token1Only(s, amountToken1, amountToken2) ==
  (amountToken1 * s.totalSupply) \div s.reserve1

\* later deposit (lines 83-86): shares minted
ProportionalLiquidity(s, amountToken1, amountToken2) ==
  LET liquidityFromToken1 == (amountToken1 * s.totalSupply) \div s.reserve1
      liquidityFromToken2 == (amountToken2 * s.totalSupply) \div s.reserve2
  IN Min(liquidityFromToken1, liquidityFromToken2)

addLiquidity(s, sender, amountToken1, amountToken2, oc1, oc2) ==
  LET totalSupplyOfToken == s.totalSupply
      e1 == Effective(s.tokenBalance, token1, sender, amountToken1, oc1)
      tb1 == Transfer(s.tokenBalance, token1, sender, Pool, amountToken1, oc1)
      e2 == Effective(tb1, token2, sender, amountToken2, oc2)
      tb2 == Transfer(tb1, token2, sender, Pool, amountToken2, oc2)
      \* the return values of the two transferFrom calls are not looked at
      s1 == [s EXCEPT !.tokenBalance = tb2]
  IN IF e1 = "revert" \/ e2 = "revert" THEN Revert(s, "transferFrom reverted")
     ELSE IF totalSupplyOfToken = 0
     THEN LET liquidity == InitialLiquidity(amountToken1, amountToken2)
              s2 == [s1 EXCEPT !.reserve1 = amountToken1, !.reserve2 = amountToken2]
              s3 == updateConstantFormula(mint(s2, sender, liquidity))
          IN IF ~(liquidity > 0) THEN Revert(s, "Insufficient liquidity created")
             ELSE IF ~HasRole(s, Pool) THEN Revert(s, "AccessControlUnauthorizedAccount")
             ELSE Result(s3, "ok", liquidity, 0,
                    <<Event("LiquidityAdded", sender, amountToken1, amountToken2, liquidity)>>)
     ELSE IF s.reserve1 = 0 \/ s.reserve2 = 0 THEN Revert(s, "division by zero")
     ELSE LET liquidity == ProportionalLiquidity(s, amountToken1, amountToken2)
              s2 == [s1 EXCEPT !.reserve1 = @ + amountToken1, !.reserve2 = @ + amountToken2]
              s3 == updateConstantFormula(mint(s2, sender, liquidity))
          IN IF ~HasRole(s, Pool) THEN Revert(s, "AccessControlUnauthorizedAccount")
             ELSE Result(s3, "ok", liquidity, 0,
                    <<Event("LiquidityAdded", sender, amountToken1, amountToken2, liquidity)>>)

ShareOfReserve_roundedUp(liquidity, reserve, totalSupplyOfToken) ==
  (liquidity * reserve + totalSupplyOfToken - 1) \div totalSupplyOfToken

\* lines 120-121: the amount of a token that liquidity shares withdraw
ShareOfReserve(liquidity, reserve, totalSupplyOfToken) ==
  (liquidity * reserve) \div totalSupplyOfToken

removeLiquidity(s, sender, liquidity, oc1, oc2) ==
  LET totalSupplyOfToken == s.totalSupply
  IN IF ~(totalSupplyOfToken > 0) THEN Revert(s, "No liquidity available")
     ELSE
     LET amountToken1 == ShareOfReserve(liquidity, s.reserve1, totalSupplyOfToken)
         amountToken2 == ShareOfReserve(liquidity, s.reserve2, totalSupplyOfToken)
     IN IF ~HasRole(s, Pool) THEN Revert(s, "AccessControlUnauthorizedAccount")
        ELSE IF ~SufficientShares(s, sender, liquidity)
        THEN Revert(s, "ERC20InsufficientBalance")
        ELSE IF amountToken1 > s.reserve1 \/ amountToken2 > s.reserve2
        THEN Revert(s, "subtraction underflow")
        ELSE
        LET s1 == burn(s, sender, liquidity)
            s2 == updateConstantFormula(
                    [s1 EXCEPT !.reserve1 = @ - amountToken1, !.reserve2 = @ - amountToken2])
            e1 == Effective(s2.tokenBalance, token1, Pool, amountToken1, oc1)
            tb1 == Transfer(s2.tokenBalance, token1, Pool, sender, amountToken1, oc1)
            e2 == Effective(tb1, token2, Pool, amountToken2, oc2)
            tb2 == Transfer(tb1, token2, Pool, sender, amountToken2, oc2)
            \* the return values of the two transfer calls are not looked at
            s3 == [s2 EXCEPT !.tokenBalance = tb2]
        IN IF e1 = "revert" \/ e2 = "revert" THEN Revert(s, "transfer reverted")
           ELSE Result(s3, "ok", amountToken1, amountToken2,
                    <<Event("LiquidityRemoved", sender, amountToken1, amountToken2, liquidity)>>)

AmountsPositive_outOnly(amountIn, amountOut) == amountOut > 0

\* line 146
AmountsPositive(amountIn, amountOut) == amountIn > 0 /\ amountOut > 0

\* line 147: both disjuncts of the require name the same direction
PairOfPool(fromToken, toToken) ==
  (fromToken = token1 /\ toToken = token2) \/ (fromToken = token1 /\ toToken = token2)

WithinExpected_any(amountOut, expectedAmount) == TRUE

\* line 158: the caller's amountOut against the computed amount
WithinExpected(amountOut, expectedAmount) == amountOut <= expectedAmount

TransferStatus_secondUnchecked(e1, e2) ==
  IF e1 = "revert" THEN "transferFrom reverted"
  ELSE IF e1 # "ok" THEN "Transfer of token failed"
  ELSE IF e2 = "revert" THEN "transfer reverted"
  ELSE "ok"

\* lines 159-160: the status the two required transfers leave the call in;
\* a transfer that reverts or does not report success reverts the call
TransferStatus(e1, e2) ==
  IF e1 = "revert" THEN "transferFrom reverted"
  ELSE IF e1 # "ok" THEN "Transfer of token failed"
  ELSE IF e2 = "revert" THEN "transfer reverted"
  ELSE IF e2 # "ok" THEN "Transfer of token to failed"
  ELSE "ok"

PreservesConstant_rounded(s) ==
  /\ s.reserve1 * s.reserve2 <= s.constantK
  /\ s.constantK < (s.reserve1 + 1) * (s.reserve2 + 1)

PreservesConstant_unchecked(s) == TRUE

PreservesConstant_atMost(s) == s.reserve1 * s.reserve2 <= s.constantK

\* line 170: the check made after the reserves are updated
PreservesConstant(s) == s.reserve1 * s.reserve2 = s.constantK

\* lines 152-157: the amount the swap pays out
ExpectedAmount(s, fromToken, amountIn) ==
  IF fromToken = token1
  THEN s.reserve2 - (s.constantK \div (s.reserve1 + amountIn))
  ELSE s.reserve1 - (s.constantK \div (s.reserve2 + amountIn))

\* lines 162-168: the reserve update
UpdateReserves(s, fromToken, toToken, amountIn, expectedAmount) ==
  IF fromToken = token1 /\ toToken = token2
  THEN [s EXCEPT !.reserve1 = @ + amountIn, !.reserve2 = @ - expectedAmount]
  ELSE [s EXCEPT !.reserve1 = @ - expectedAmount, !.reserve2 = @ + amountIn]

swapTokens(s, sender, fromToken, toToken, amountIn, amountOut, oc1, oc2) ==
  IF ~AmountsPositive(amountIn, amountOut) THEN Revert(s, "Amount must be greater than 0")
  ELSE IF ~PairOfPool(fromToken, toToken)
  THEN Revert(s, "Tokens need to be pairs of this liquidity pool")
  ELSE IF ~(s.tokenBalance[fromToken][sender] > amountIn)
  THEN Revert(s, "Insufficient balance of tokenFrom")
  ELSE IF ~(s.tokenBalance[toToken][Pool] > amountOut)
  THEN Revert(s, "Insufficient balance of tokenTo")
  ELSE
  LET expectedAmount == ExpectedAmount(s, fromToken, amountIn)
      e1 == Effective(s.tokenBalance, fromToken, sender, amountIn, oc1)
      tb1 == Transfer(s.tokenBalance, fromToken, sender, Pool, amountIn, oc1)
      e2 == Effective(tb1, toToken, Pool, expectedAmount, oc2)
      tb2 == Transfer(tb1, toToken, Pool, sender, expectedAmount, oc2)
      s1 == [s EXCEPT !.tokenBalance = tb2]
      s2 == UpdateReserves(s1, fromToken, toToken, amountIn, expectedAmount)
  IN IF ~WithinExpected(amountOut, expectedAmount)
     THEN Revert(s, "Swap does not preserve constant formula (amountOut)")
     ELSE IF TransferStatus(e1, e2) # "ok" THEN Revert(s, TransferStatus(e1, e2))
     ELSE IF s2.reserve1 < 0 \/ s2.reserve2 < 0 THEN Revert(s, "subtraction underflow")
     ELSE IF ~PreservesConstant(s2)
     THEN Revert(s, "Swap does not preserve constant formula (reserves)")
     ELSE Result(s2, "ok", expectedAmount, 0,
                 <<Event("Swap", sender, amountIn, expectedAmount, fromToken)>>)

getReserves_sync(s) ==
  LET s1 == [s EXCEPT !.reserve1 = s.tokenBalance[token1][Pool],
                      !.reserve2 = s.tokenBalance[token2][Pool]]
  IN Result(s1, "ok", s1.reserve1, s1.reserve2, << >>)

getReserves(s) == Result(s, "ok", s.reserve1, s.reserve2, << >>)

\* ------------------------------------------------------------ registry
\* The registry's state as one value: the getPair mapping, the allPairs
\* list, and the pools it has deployed.  A pool's address is its position in
\* pools; its entry holds the two tokens its constructor stored.
RegistryCur == [getPair |-> getPair, allPairs |-> allPairs, pools |-> pools]

\* address(0): the value of a getPair entry that was never written
NoPool == 0

Register_oneWay(s, tokenA, tokenB, nebuPool) ==
  [s EXCEPT !.getPair[tokenA][tokenB] = nebuPool]

\* lines 118-119: the new pool is entered under both orders of the pair
Register(s, tokenA, tokenB, nebuPool) ==
  [s EXCEPT !.getPair[tokenA][tokenB] = nebuPool, !.getPair[tokenB][tokenA] = nebuPool]

NotIdentical_unchecked(tokenA, tokenB) == TRUE

\* line 105
NotIdentical(tokenA, tokenB) == tokenA # tokenB

PushPair_front(s, nebuPool) == [s EXCEPT !.allPairs = <<nebuPool>> \o @]

\* line 120: allPairs.push
PushPair(s, nebuPool) == [s EXCEPT !.allPairs = Append(@, nebuPool)]

\* createPairs(token1, token2, token1Name, token2Name); the two names only
\* make up the name and symbol of the new pool's ledger
createPairs(s, tokenA, tokenB) ==
  IF ~NotIdentical(tokenA, tokenB) THEN Revert(s, "Identical address is not allowed")
  ELSE IF ~(s.getPair[tokenA][tokenB] = NoPool) THEN Revert(s, "Pair already exists")
  ELSE LET nebuPool == Len(s.pools) + 1
           s1 == [s EXCEPT !.pools = Append(@, [token1 |-> tokenA, token2 |-> tokenB])]
           s2 == Register(s1, tokenA, tokenB, nebuPool)
           s3 == PushPair(s2, nebuPool)
       IN Result(s3, "ok", nebuPool, 0,
                 <<Event("PairCreated", "none", tokenA, tokenB, nebuPool)>>)

\* the getter of the public mapping getPair
getPairAt(s, tokenA, tokenB) == Result(s, "ok", s.getPair[tokenA][tokenB], 0, << >>)

allPairsLength(s) == Result(s, "ok", Len(s.allPairs), 0, << >>)

getPairs(s) == Result(s, "ok", s.allPairs, 0, << >>)

\* ------------------------------------- the ledger's external functions
\* NebulaLiquidityToken.mint called by caller
externalMint(s, caller, to, amount) ==
  IF ~HasRole(s, caller) THEN Revert(s, "AccessControlUnauthorizedAccount")
  ELSE Result(mint(s, to, amount), "ok", 0, 0, << >>)

\* NebulaLiquidityToken.burn called by caller
externalBurn(s, caller, from, amount) ==
  IF ~HasRole(s, caller) THEN Revert(s, "AccessControlUnauthorizedAccount")
  ELSE IF ~SufficientShares(s, from, amount) THEN Revert(s, "ERC20InsufficientBalance")
  ELSE Result(burn(s, from, amount), "ok", 0, 0, << >>)

\* AccessControl.grantRole(DEFAULT_ADMIN_ROLE, account), inherited by the
\* ledger: open to the holders of the role's admin role, which for
\* DEFAULT_ADMIN_ROLE is the role itself
grantRole(s, caller, account) ==
  IF ~HasRole(s, caller) THEN Revert(s, "AccessControlUnauthorizedAccount")
  ELSE Result([s EXCEPT !.admins = @ \cup {account}], "ok", 0, 0, << >>)

\* AccessControl.renounceRole(DEFAULT_ADMIN_ROLE, callerConfirmation),
\* inherited by the ledger: the caller gives up its own role
renounceRole(s, caller, callerConfirmation) ==
  IF callerConfirmation # caller THEN Revert(s, "AccessControlBadConfirmation")
  ELSE Result([s EXCEPT !.admins = @ \ {caller}], "ok", 0, 0, << >>)

\* ---------------------------------------------------------- state machine
\* Calls reach the pool one at a time (the chain serialises transactions).
\* last is the caller's view of the call just made: Idle before a call is
\* submitted, and after it the function called, its arguments, how the two
\* token transfers behaved, how the call ended, what it returned or paid out,
\* the events of its receipt, and the state it was made in.
NoArgs == [sender |-> "none", fromToken |-> "none", toToken |-> "none", a |-> 0, b |-> 0,
           oc1 |-> "ok", oc2 |-> "ok", account |-> "none"]

Args(sender, fromToken, toToken, a, b, oc1, oc2) ==
  [sender |-> sender, fromToken |-> fromToken, toToken |-> toToken, a |-> a, b |-> b,
   oc1 |-> oc1, oc2 |-> oc2, account |-> "none"]

\* arguments of a call on the ledger: the caller, the account named, an amount
LedgerArgs(sender, account, amount) ==
  [NoArgs EXCEPT !.sender = sender, !.account = account, !.a = amount]

Idle == [op |-> "idle", args |-> NoArgs, status |-> "ok", out1 |-> 0, out2 |-> 0,
         logs |-> << >>, pre |-> << >>]

Call(op, args, s, r) ==
  [op |-> op, args |-> args, status |-> r.status, out1 |-> r.out1, out2 |-> r.out2,
   logs |-> r.logs, pre |-> s]

Commit(r) ==
  /\ reserve1' = r.st.reserve1
  /\ reserve2' = r.st.reserve2
  /\ constantK' = r.st.constantK
  /\ totalSupply' = r.st.totalSupply
  /\ balances' = r.st.balances
  /\ admins' = r.st.admins
  /\ tokenBalance' = r.st.tokenBalance
  /\ UNCHANGED <<registryVars, frame>>

\* the outcome of a call on the registry; its PairCreated events go to the
\* registry's log, not to a pool's
RegistryCommit(r) ==
  /\ getPair' = r.st.getPair
  /\ allPairs' = r.st.allPairs
  /\ pools' = r.st.pools
  /\ UNCHANGED <<poolVars, nEvents, frame>>

\* the pool's event log grows by the receipt of each call; the exploration
\* stops at MaxEvents events
Logged(r) ==
  /\ nEvents + Len(r.logs) <= MaxEvents
  /\ nEvents' = nEvents + Len(r.logs)

\* the behaviour of the two token transfers of a call: both as expected, or
\* one of them faulty (returning false, or reverting)
\* frame: the call of the pool that has been entered and is waiting inside a
\* token transfer (NoFrame when no call is in progress; used by
\* ReentrantSpec only): its function and arguments, the locals it computed
\* before the transfer, the state and event count the transaction started
\* from, and the call made on the pool from inside the transfer, if any
NoNested == [op |-> "none", args |-> NoArgs, status |-> "ok", pre |-> << >>]

NoFrame == [op |-> "none", pc |-> "none", args |-> NoArgs, local1 |-> 0, local2 |-> 0,
            start |-> << >>, startEvents |-> 0, nested |-> NoNested]

Behaviours ==
  {b \in Outcomes \X Outcomes : b[1] = "ok" \/ b[2] = "ok"}

\* the (fromToken, toToken) arguments tried: the pool's pair in both
\* directions, a token twice, and a foreign token on either side
TokenPairs ==
  {<<token1, token2>>, <<token2, token1>>, <<token1, token1>>,
   <<OtherToken, token2>>, <<token1, OtherToken>>}

Init ==
  /\ reserve1 = 0
  /\ reserve2 = 0
  /\ constantK = 0
  /\ totalSupply = 0
  /\ balances = [u \in Users |-> 0]
  /\ admins = {Pool}
  /\ tokenBalance = [t \in Tokens |-> [a \in Accounts |-> IF a = Pool THEN 0 ELSE InitBalance]]
  /\ nEvents = 0
  /\ getPair = [x \in AnyToken |-> [y \in AnyToken |-> NoPool]]
  /\ allPairs = << >>
  /\ pools = << >>
  /\ frame = NoFrame
  /\ last = Idle

AddLiquidity ==
  /\ last.op = "idle"
  /\ \E sender \in Users, a1 \in Amounts, a2 \in Amounts, b \in Behaviours :
       LET r == addLiquidity(Cur, sender, a1, a2, b[1], b[2])
       IN /\ Logged(r)
          /\ Commit(r)
          /\ last' = Call("addLiquidity", Args(sender, token1, token2, a1, a2, b[1], b[2]), Cur, r)

RemoveLiquidity ==
  /\ last.op = "idle"
  /\ \E sender \in Users, liquidity \in Amounts, b \in Behaviours :
       LET r == removeLiquidity(Cur, sender, liquidity, b[1], b[2])
       IN /\ Logged(r)
          /\ Commit(r)
          /\ last' = Call("removeLiquidity", Args(sender, token1, token2, liquidity, 0, b[1], b[2]), Cur, r)

SwapTokens ==
  /\ last.op = "idle"
  /\ \E sender \in Users, p \in TokenPairs,
        amountIn \in Amounts, amountOut \in Amounts, b \in Behaviours :
       LET r == swapTokens(Cur, sender, p[1], p[2], amountIn, amountOut, b[1], b[2])
       IN /\ Logged(r)
          /\ Commit(r)
          /\ last' = Call("swapTokens", Args(sender, p[1], p[2], amountIn, amountOut, b[1], b[2]), Cur, r)

GetExpectedOutput ==
  /\ last.op = "idle"
  /\ \E sender \in Users, fromToken \in AnyToken, amountIn \in Amounts :
       LET r == getExpectedOutput(Cur, fromToken, amountIn)
       IN /\ Logged(r)
          /\ Commit(r)
          /\ last' = Call("getExpectedOutput", Args(sender, fromToken, "none", amountIn, 0, "ok", "ok"), Cur, r)

GetReserves ==
  /\ last.op = "idle"
  /\ \E sender \in Users :
       LET r == getReserves(Cur)
       IN /\ Logged(r)
          /\ Commit(r)
          /\ last' = Call("getReserves", Args(sender, "none", "none", 0, 0, "ok", "ok"), Cur, r)

\* calls made on the ledger directly, by accounts other than the pool (the
\* pool calls the ledger only from inside addLiquidity and removeLiquidity)
Mint ==
  /\ last.op = "idle"
  /\ \E caller \in Users, to \in Users, amount \in Amounts :
       LET r == externalMint(Cur, caller, to, amount)
       IN /\ Logged(r)
          /\ Commit(r)
          /\ last' = Call("mint", LedgerArgs(caller, to, amount), Cur, r)

Burn ==
  /\ last.op = "idle"
  /\ \E caller \in Users, from \in Users, amount \in Amounts :
       LET r == externalBurn(Cur, caller, from, amount)
       IN /\ Logged(r)
          /\ Commit(r)
          /\ last' = Call("burn", LedgerArgs(caller, from, amount), Cur, r)

GrantRole ==
  /\ last.op = "idle"
  /\ \E caller \in Users, account \in Users :
       LET r == grantRole(Cur, caller, account)
       IN /\ Logged(r)
          /\ Commit(r)
          /\ last' = Call("grantRole", LedgerArgs(caller, account, 0), Cur, r)

RenounceRole ==
  /\ last.op = "idle"
  /\ \E caller \in Users, callerConfirmation \in Users :
       LET r == renounceRole(Cur, caller, callerConfirmation)
       IN /\ Logged(r)
          /\ Commit(r)
          /\ last' = Call("renounceRole", LedgerArgs(caller, callerConfirmation, 0), Cur, r)

\* the caller has seen the outcome; the next call can be submitted
Return ==
  /\ last.op # "idle"
  /\ last' = Idle
  /\ frame' = NoFrame
  /\ UNCHANGED <<poolVars, nEvents, registryVars>>

Next ==
  \/ AddLiquidity
  \/ RemoveLiquidity
  \/ SwapTokens
  \/ GetExpectedOutput
  \/ GetReserves
  \/ Mint
  \/ Burn
  \/ GrantRole
  \/ RenounceRole
  \/ Return

Spec == Init /\ [][Next]_vars

\* ------------------------------------------- the registry's state machine
\* Calls on the registry NebuSwap.  The pools it deploys start empty and are
\* operated as above; here only the registry's own calls are taken.
CreatePairs ==
  /\ last.op = "idle"
  /\ \E sender \in Users, tokenA \in AnyToken, tokenB \in AnyToken :
       LET r == createPairs(RegistryCur, tokenA, tokenB)
       IN /\ RegistryCommit(r)
          /\ last' = Call("createPairs", Args(sender, tokenA, tokenB, 0, 0, "ok", "ok"),
                          RegistryCur, r)

GetPair ==
  /\ last.op = "idle"
  /\ \E sender \in Users, tokenA \in AnyToken, tokenB \in AnyToken :
       LET r == getPairAt(RegistryCur, tokenA, tokenB)
       IN /\ RegistryCommit(r)
          /\ last' = Call("getPair", Args(sender, tokenA, tokenB, 0, 0, "ok", "ok"),
                          RegistryCur, r)

AllPairsLength ==
  /\ last.op = "idle"
  /\ \E sender \in Users :
       LET r == allPairsLength(RegistryCur)
       IN /\ RegistryCommit(r)
          /\ last' = Call("allPairsLength", Args(sender, "none", "none", 0, 0, "ok", "ok"),
                          RegistryCur, r)

GetPairs ==
  /\ last.op = "idle"
  /\ \E sender \in Users :
       LET r == getPairs(RegistryCur)
       IN /\ RegistryCommit(r)
          /\ last' = Call("getPairs", Args(sender, "none", "none", 0, 0, "ok", "ok"),
                          RegistryCur, r)

RegistryNext ==
  \/ CreatePairs
  \/ GetPair
  \/ AllPairsLength
  \/ GetPairs
  \/ Return

RegistrySpec == Init /\ [][RegistryNext]_vars

\* -------------------------------------------------- calls in two halves
\* NebuPool has no re-entrancy guard, and the tokens of a pair are arbitrary
\* contracts: a token can call the pool back from inside a transfer (or hand
\* control to the sender, as a token with transfer hooks does).  Each of the
\* three functions is therefore also given in two halves, split inside its
\* second transfer before that transfer moves anything: the half up to that
\* point (it returns the state reached and the locals computed so far) and
\* the half from there on, which works on the reserves and the ledger as it
\* then finds them.  Both transfers themselves behave as expected here.

\* addLiquidity, lines 57-66: totalSupplyOfToken is read, token1 is pulled
addLiquidityEnter(s, sender, amountToken1, amountToken2) ==
  IF Effective(s.tokenBalance, token1, sender, amountToken1, "ok") # "ok"
  THEN Revert(s, "transferFrom reverted")
  ELSE Result([s EXCEPT !.tokenBalance = Move(@, token1, sender, Pool, amountToken1)],
              "ok", s.totalSupply, 0, << >>)

\* addLiquidity, lines 67-99, with the totalSupplyOfToken read at line 57
addLiquidityResume(s, sender, amountToken1, amountToken2, totalSupplyOfToken) ==
  IF Effective(s.tokenBalance, token2, sender, amountToken2, "ok") # "ok"
  THEN Revert(s, "transferFrom reverted")
  ELSE
  LET s1 == [s EXCEPT !.tokenBalance = Move(@, token2, sender, Pool, amountToken2)]
  IN IF totalSupplyOfToken = 0
     THEN LET liquidity == InitialLiquidity(amountToken1, amountToken2)
              s2 == [s1 EXCEPT !.reserve1 = amountToken1, !.reserve2 = amountToken2]
              s3 == updateConstantFormula(mint(s2, sender, liquidity))
          IN IF ~(liquidity > 0) THEN Revert(s, "Insufficient liquidity created")
             ELSE IF ~HasRole(s, Pool) THEN Revert(s, "AccessControlUnauthorizedAccount")
             ELSE Result(s3, "ok", liquidity, 0,
                    <<Event("LiquidityAdded", sender, amountToken1, amountToken2, liquidity)>>)
     ELSE IF s.reserve1 = 0 \/ s.reserve2 = 0 THEN Revert(s, "division by zero")
     ELSE LET liquidity ==
                Min((amountToken1 * totalSupplyOfToken) \div s.reserve1,
                    (amountToken2 * totalSupplyOfToken) \div s.reserve2)
              s2 == [s1 EXCEPT !.reserve1 = @ + amountToken1, !.reserve2 = @ + amountToken2]
              s3 == updateConstantFormula(mint(s2, sender, liquidity))
          IN IF ~HasRole(s, Pool) THEN Revert(s, "AccessControlUnauthorizedAccount")
             ELSE Result(s3, "ok", liquidity, 0,
                    <<Event("LiquidityAdded", sender, amountToken1, amountToken2, liquidity)>>)

\* removeLiquidity, lines 117-134: the shares are burned, the reserves and
\* constantK written, token1 is paid out
removeLiquidityEnter(s, sender, liquidity) ==
  LET totalSupplyOfToken == s.totalSupply
  IN IF ~(totalSupplyOfToken > 0) THEN Revert(s, "No liquidity available")
     ELSE
     LET amountToken1 == ShareOfReserve(liquidity, s.reserve1, totalSupplyOfToken)
         amountToken2 == ShareOfReserve(liquidity, s.reserve2, totalSupplyOfToken)
         s1 == burn(s, sender, liquidity)
         s2 == updateConstantFormula(
                 [s1 EXCEPT !.reserve1 = @ - amountToken1, !.reserve2 = @ - amountToken2])
     IN IF ~HasRole(s, Pool) THEN Revert(s, "AccessControlUnauthorizedAccount")
        ELSE IF ~SufficientShares(s, sender, liquidity)
        THEN Revert(s, "ERC20InsufficientBalance")
        ELSE IF amountToken1 > s.reserve1 \/ amountToken2 > s.reserve2
        THEN Revert(s, "subtraction underflow")
        ELSE IF Effective(s2.tokenBalance, token1, Pool, amountToken1, "ok") # "ok"
        THEN Revert(s, "transfer reverted")
        ELSE Result([s2 EXCEPT !.tokenBalance = Move(@, token1, Pool, sender, amountToken1)],
                    "ok", amountToken1, amountToken2, << >>)

\* removeLiquidity, lines 135-137
removeLiquidityResume(s, sender, liquidity, amountToken1, amountToken2) ==
  IF Effective(s.tokenBalance, token2, Pool, amountToken2, "ok") # "ok"
  THEN Revert(s, "transfer reverted")
  ELSE Result([s EXCEPT !.tokenBalance = Move(@, token2, Pool, sender, amountToken2)],
              "ok", amountToken1, amountToken2,
              <<Event("LiquidityRemoved", sender, amountToken1, amountToken2, liquidity)>>)

\* swapTokens, lines 146-159: the checks, expectedAmount, fromToken is pulled
swapTokensEnter(s, sender, fromToken, toToken, amountIn, amountOut) ==
  IF ~AmountsPositive(amountIn, amountOut) THEN Revert(s, "Amount must be greater than 0")
  ELSE IF ~PairOfPool(fromToken, toToken)
  THEN Revert(s, "Tokens need to be pairs of this liquidity pool")
  ELSE IF ~(s.tokenBalance[fromToken][sender] > amountIn)
  THEN Revert(s, "Insufficient balance of tokenFrom")
  ELSE IF ~(s.tokenBalance[toToken][Pool] > amountOut)
  THEN Revert(s, "Insufficient balance of tokenTo")
  ELSE IF ~WithinExpected(amountOut, ExpectedAmount(s, fromToken, amountIn))
  THEN Revert(s, "Swap does not preserve constant formula (amountOut)")
  ELSE Result([s EXCEPT !.tokenBalance = Move(@, fromToken, sender, Pool, amountIn)],
              "ok", ExpectedAmount(s, fromToken, amountIn), 0, << >>)

\* swapTokens, lines 160-172, with the expectedAmount computed before
swapTokensResume(s, sender, fromToken, toToken, amountIn, expectedAmount) ==
  IF Effective(s.tokenBalance, toToken, Pool, expectedAmount, "ok") # "ok"
  THEN Revert(s, "transfer reverted")
  ELSE
  LET s1 == [s EXCEPT !.tokenBalance = Move(@, toToken, Pool, sender, expectedAmount)]
      s2 == UpdateReserves(s1, fromToken, toToken, amountIn, expectedAmount)
  IN IF s2.reserve1 < 0 \/ s2.reserve2 < 0 THEN Revert(s, "subtraction underflow")
     ELSE IF ~PreservesConstant(s2)
     THEN Revert(s, "Swap does not preserve constant formula (reserves)")
     ELSE Result(s2, "ok", expectedAmount, 0,
                 <<Event("Swap", sender, amountIn, expectedAmount, fromToken)>>)

\* a call of one of the three functions run as one piece, both transfers
\* behaving as expected
Atomic(op, s, a) ==
  IF op = "addLiquidity" THEN addLiquidity(s, a.sender, a.a, a.b, "ok", "ok")
  ELSE IF op = "removeLiquidity" THEN removeLiquidity(s, a.sender, a.a, "ok", "ok")
  ELSE swapTokens(s, a.sender, a.fromToken, a.toToken, a.a, a.b, "ok", "ok")

\* the first half of a call
EnterHalf(op, s, a) ==
  IF op = "addLiquidity" THEN addLiquidityEnter(s, a.sender, a.a, a.b)
  ELSE IF op = "removeLiquidity" THEN removeLiquidityEnter(s, a.sender, a.a)
  ELSE swapTokensEnter(s, a.sender, a.fromToken, a.toToken, a.a, a.b)

\* the second half of the call in frame f, on the state s it finds
ResumeHalf(f, s) ==
  IF f.op = "addLiquidity"
  THEN addLiquidityResume(s, f.args.sender, f.args.a, f.args.b, f.local1)
  ELSE IF f.op = "removeLiquidity"
  THEN removeLiquidityResume(s, f.args.sender, f.args.a, f.local1, f.local2)
  ELSE swapTokensResume(s, f.args.sender, f.args.fromToken, f.args.toToken, f.args.a, f.local1)

\* the calls tried: the three functions, swaps in the direction of the pair
PoolCalls ==
  {<<"addLiquidity", Args(u, token1, token2, x, y, "ok", "ok")>> :
      u \in Users, x \in Amounts, y \in Amounts}
  \cup {<<"removeLiquidity", Args(u, token1, token2, x, 0, "ok", "ok")>> :
      u \in Users, x \in Amounts}
  \cup {<<"swapTokens", Args(u, token1, token2, x, y, "ok", "ok")>> :
      u \in Users, x \in Amounts, y \in Amounts}

\* a call is entered and reaches its second transfer (a call that fails
\* before that is an ordinary failed call, as in Spec)
Enter ==
  /\ last.op = "idle" /\ frame.op = "none"
  /\ \E c \in PoolCalls :
       LET r == EnterHalf(c[1], Cur, c[2])
       IN /\ r.status = "ok"
          /\ frame' = [op |-> c[1], pc |-> "transfer", args |-> c[2],
                       local1 |-> r.out1, local2 |-> r.out2,
                       start |-> Cur, startEvents |-> nEvents, nested |-> NoNested]
          /\ reserve1' = r.st.reserve1 /\ reserve2' = r.st.reserve2
          /\ constantK' = r.st.constantK /\ totalSupply' = r.st.totalSupply
          /\ balances' = r.st.balances /\ admins' = r.st.admins
          /\ tokenBalance' = r.st.tokenBalance
          /\ UNCHANGED <<nEvents, registryVars, last>>

\* from inside the transfer the pool is called again; that call runs as one
\* piece on the state it finds
Reenter ==
  /\ frame.pc = "transfer" /\ frame.nested.op = "none"
  /\ \E c \in PoolCalls :
       LET r == Atomic(c[1], Cur, c[2])
       IN /\ Logged(r)
          /\ frame' = [frame EXCEPT !.nested =
                         [op |-> c[1], args |-> c[2], status |-> r.status, pre |-> Cur]]
          /\ reserve1' = r.st.reserve1 /\ reserve2' = r.st.reserve2
          /\ constantK' = r.st.constantK /\ totalSupply' = r.st.totalSupply
          /\ balances' = r.st.balances /\ admins' = r.st.admins
          /\ tokenBalance' = r.st.tokenBalance
          /\ UNCHANGED <<registryVars, last>>

\* the transfer returns and the call runs to its end; if it reverts, the
\* transaction is discarded, with what was done from inside the transfer
Resume ==
  /\ frame.pc = "transfer"
  /\ LET r == ResumeHalf(frame, Cur)
         final == IF r.status = "ok" THEN r ELSE Revert(frame.start, r.status)
     IN /\ IF r.status = "ok"
           THEN Logged(r)
           ELSE nEvents' = frame.startEvents
        /\ frame' = [frame EXCEPT !.pc = "done"]
        /\ reserve1' = final.st.reserve1 /\ reserve2' = final.st.reserve2
        /\ constantK' = final.st.constantK /\ totalSupply' = final.st.totalSupply
        /\ balances' = final.st.balances /\ admins' = final.st.admins
        /\ tokenBalance' = final.st.tokenBalance
        /\ last' = Call(frame.op, frame.args, frame.start, final)
        /\ UNCHANGED registryVars

ReentrantNext ==
  \/ Enter
  \/ Reenter
  \/ Resume
  \/ Return

ReentrantSpec == Init /\ [][ReentrantNext]_vars

TypeOK ==
  /\ reserve1 \in Nat /\ reserve2 \in Nat /\ constantK \in Nat /\ totalSupply \in Nat
  /\ \A u \in Users : balances[u] \in Nat
  /\ admins \subseteq Accounts
  /\ \A t \in Tokens, a \in Accounts : tokenBalance[t][a] \in Nat

\* ------------------------------------------------------------- claims
SwapCall == last.op = "swapTokens"
SwapCommitted == SwapCall /\ last.status = "ok"

\* reserve of a token of the pair in state s
ReserveOf(s, token) == IF token = token1 THEN s.reserve1 ELSE s.reserve2
OtherOf(token) == IF token = token1 THEN token2 ELSE token1

\* C1: every swap that commits leaves reserve1 * reserve2 at least as large
\* as it was before the swap.
C1_InvariantMonotonicity ==
  SwapCommitted => reserve1 * reserve2 >= last.pre.reserve1 * last.pre.reserve2

\* a swap has committed against a pool holding both assets
C1_Witness ==
  SwapCommitted /\ last.pre.reserve1 > 0 /\ last.pre.reserve2 > 0 /\ last.out1 > 0

\* C2: the check made after the reserve update of a swap never fails: no
\* swap ends with the constant-formula violation of line 170.
C2_InvariantCheckNeverFails ==
  SwapCall => last.status # "Swap does not preserve constant formula (reserves)"

\* the pool with the roles of token1 and token2 exchanged
Mirror(s) ==
  [s EXCEPT !.reserve1 = s.reserve2, !.reserve2 = s.reserve1,
            !.tokenBalance = [tk \in Tokens |-> s.tokenBalance[OtherOf(tk)]]]

\* C3: a swap from token2 to token1 is accepted exactly when the same swap
\* from token1 to token2 is accepted by the pool with the two assets exchanged.
C3_SwapSymmetric ==
  (SwapCall /\ last.args.fromToken = token2 /\ last.args.toToken = token1)
    => ((last.status = "ok")
          <=> (swapTokens(Mirror(last.pre), last.args.sender, token1, token2,
                          last.args.a, last.args.b, last.args.oc1, last.args.oc2).status = "ok"))

QuoteCall == last.op = "getExpectedOutput"

\* C4: for a token of the pair and amountIn > 0, getExpectedOutput returns
\* reserveOut - floor(reserveIn * reserveOut / (reserveIn + amountIn)) on the
\* current reserves.
C4_QuoteFormula ==
  (QuoteCall /\ last.args.fromToken \in Tokens /\ last.args.a > 0)
    => LET reserveIn == ReserveOf(last.pre, last.args.fromToken)
           reserveOut == ReserveOf(last.pre, OtherOf(last.args.fromToken))
       IN /\ last.status = "ok"
          /\ last.out1 = reserveOut - ((reserveIn * reserveOut) \div (reserveIn + last.args.a))

\* a quote was returned for token2 against a pool that has seen a deposit
\* and then a second committed call
C4_Witness ==
  /\ QuoteCall /\ last.status = "ok" /\ last.args.fromToken = token2
  /\ last.out1 > 0 /\ last.out1 < reserve1 /\ nEvents >= 2

\* C5: with amountOut the quote for amountIn > 0 on positive reserves,
\* (reserveIn + amountIn) * (reserveOut - amountOut) >= reserveIn * reserveOut.
C5_QuoteNeverBelowK ==
  (QuoteCall /\ last.status = "ok" /\ reserve1 > 0 /\ reserve2 > 0)
    => LET reserveIn == ReserveOf(last.pre, last.args.fromToken)
           reserveOut == ReserveOf(last.pre, OtherOf(last.args.fromToken))
       IN (reserveIn + last.args.a) * (reserveOut - last.out1) >= reserveIn * reserveOut

\* the books after the two transfers of a committed swap
SwapBooks(s, sender, fromToken, toToken, amountIn, paid) ==
  Move(Move(s.tokenBalance, fromToken, sender, Pool, amountIn), toToken, Pool, sender, paid)

\* C6: a swap either makes both transfers and updates the reserves, or makes
\* no transfer and leaves the reserves as they were.
C6_SwapAtomic ==
  SwapCall =>
    \/ /\ last.status = "ok"
       /\ tokenBalance = SwapBooks(last.pre, last.args.sender, last.args.fromToken,
                                   last.args.toToken, last.args.a, last.out1)
       /\ ReserveOf(Cur, last.args.fromToken)
            = ReserveOf(last.pre, last.args.fromToken) + last.args.a
       /\ ReserveOf(Cur, last.args.toToken)
            = ReserveOf(last.pre, last.args.toToken) - last.out1
    \/ /\ last.status # "ok"
       /\ tokenBalance = last.pre.tokenBalance
       /\ reserve1 = last.pre.reserve1
       /\ reserve2 = last.pre.reserve2

\* the outbound transfer of a swap failed after the inbound one had moved a
\* positive amount, in a swap that would otherwise have committed
C6_Witness ==
  /\ SwapCall /\ last.status = "Transfer of token to failed"
  /\ last.args.oc1 = "ok" /\ last.args.oc2 = "false" /\ last.args.a > 0
  /\ swapTokens(last.pre, last.args.sender, last.args.fromToken, last.args.toToken,
                last.args.a, last.args.b, "ok", "ok").status = "ok"

\* C7: a committed swap pays the trader getExpectedOutput(fromToken,
\* amountIn) of the state before the swap, which is at least the caller's
\* amountOut; reserveIn grows by amountIn, reserveOut shrinks by the amount
\* paid, and the share ledger is untouched.
C7_SwapCommit ==
  SwapCommitted =>
    LET a == last.args
        q == getExpectedOutput(last.pre, a.fromToken, a.a)
    IN /\ q.status = "ok"
       /\ last.out1 = q.out1
       /\ last.out1 >= a.b
       /\ tokenBalance[a.toToken][a.sender] = last.pre.tokenBalance[a.toToken][a.sender] + last.out1
       /\ tokenBalance[a.fromToken][a.sender] = last.pre.tokenBalance[a.fromToken][a.sender] - a.a
       /\ ReserveOf(Cur, a.fromToken) = ReserveOf(last.pre, a.fromToken) + a.a
       /\ ReserveOf(Cur, OtherOf(a.fromToken)) = ReserveOf(last.pre, OtherOf(a.fromToken)) - last.out1
       /\ balances = last.pre.balances
       /\ totalSupply = last.pre.totalSupply

\* a swap committed that paid out more than the caller's amountOut
C7_Witness ==
  SwapCommitted /\ last.out1 > last.args.b /\ last.args.b > 0 /\ totalSupply > 0

\* C8: a swap with amountIn = 0, with a token outside the pair, or whose
\* computed amount is below the caller's amountOut fails, and a failed swap
\* moves no token, changes neither reserves nor shares and logs nothing.
C8_SwapRejections ==
  SwapCall =>
    LET a == last.args
    IN /\ a.a = 0 => last.status = "Amount must be greater than 0"
       /\ (a.fromToken \notin Tokens \/ a.toToken \notin Tokens) => last.status # "ok"
       /\ (a.fromToken \notin Tokens /\ a.a > 0 /\ a.b > 0)
            => last.status = "Tokens need to be pairs of this liquidity pool"
       /\ (a.a > 0 /\ a.fromToken \in Tokens
             /\ a.b > getExpectedOutput(last.pre, a.fromToken, a.a).out1)
            => last.status # "ok"
       /\ last.status # "ok" => (Cur = last.pre /\ last.logs = << >>)

\* a swap was rejected because the computed amount was below the caller's
\* amountOut, in a pool with liquidity
C8_Witness ==
  /\ SwapCall /\ last.status = "Swap does not preserve constant formula (amountOut)"
  /\ reserve1 > 0 /\ reserve2 > 0 /\ totalSupply > 0

AddCall == last.op = "addLiquidity"
AddCommitted == AddCall /\ last.status = "ok"

\* the spec's first-deposit scenario, run through addLiquidity
EmptyPool(holding) ==
  [reserve1 |-> 0, reserve2 |-> 0, constantK |-> 0, totalSupply |-> 0,
   balances |-> [u \in Users |-> 0], admins |-> {Pool},
   tokenBalance |-> [tk \in Tokens |-> [ac \in Accounts |-> IF ac = Pool THEN 0 ELSE holding]]]

Scenario1 == addLiquidity(EmptyPool(1000), "alice", 100, 400, "ok", "ok")

\* C9: with totalSupply = 0, a committed addLiquidity mints
\* floor(sqrt(amountToken1 * amountToken2)) shares to the provider and sets
\* the reserves to exactly the two amounts; when that share amount is 0 the
\* call fails and changes nothing.  addLiquidity(100, 400) on the empty
\* pool mints 200 and leaves reserves (100, 400).
C9_FirstDeposit ==
  /\ (AddCall /\ last.pre.totalSupply = 0) =>
       LET a == last.args
           product == a.a * a.b
       IN /\ last.status = "ok" =>
               /\ last.out1 * last.out1 <= product
               /\ (last.out1 + 1) * (last.out1 + 1) > product
               /\ last.out1 > 0
               /\ balances = [last.pre.balances EXCEPT ![a.sender] = @ + last.out1]
               /\ totalSupply = last.out1
               /\ reserve1 = a.a
               /\ reserve2 = a.b
          /\ product = 0 => (last.status # "ok" /\ Cur = last.pre)
  /\ Scenario1.status = "ok" /\ Scenario1.out1 = 200
  /\ Scenario1.st.reserve1 = 100 /\ Scenario1.st.reserve2 = 400

\* a first deposit committed whose share amount is not a perfect square root
C9_Witness ==
  /\ AddCommitted /\ last.pre.totalSupply = 0
  /\ last.out1 * last.out1 < last.args.a * last.args.b

\* the spec's proportional-deposit scenario, run through addLiquidity
Scenario2 == addLiquidity(Scenario1.st, "alice", 10, 40, "ok", "ok")

\* C10: with totalSupply > 0, a committed addLiquidity mints
\* min(floor(amountToken1 * totalSupply / reserve1),
\*     floor(amountToken2 * totalSupply / reserve2)) shares to the provider,
\* computed on the values before the call, and adds the full amounts to the
\* reserves.  With reserves (100, 400) and totalSupply 200,
\* addLiquidity(10, 40) mints 20 and leaves reserves (110, 440).
C10_LaterDeposit ==
  /\ (AddCommitted /\ last.pre.totalSupply > 0) =>
       LET a == last.args
           s == last.pre
           fromToken1 == (a.a * s.totalSupply) \div s.reserve1
           fromToken2 == (a.b * s.totalSupply) \div s.reserve2
       IN /\ last.out1 = Min(fromToken1, fromToken2)
          /\ balances = [s.balances EXCEPT ![a.sender] = @ + last.out1]
          /\ totalSupply = s.totalSupply + last.out1
          /\ reserve1 = s.reserve1 + a.a
          /\ reserve2 = s.reserve2 + a.b
          /\ (a.oc1 = "ok" /\ a.oc2 = "ok") =>
               /\ tokenBalance[token1][Pool] = s.tokenBalance[token1][Pool] + a.a
               /\ tokenBalance[token2][Pool] = s.tokenBalance[token2][Pool] + a.b
  /\ Scenario2.status = "ok" /\ Scenario2.out1 = 20
  /\ Scenario2.st.reserve1 = 110 /\ Scenario2.st.reserve2 = 440

\* a later deposit committed in which the two assets yield different share
\* amounts and the smaller one, coming from token2, was minted
C10_Witness ==
  /\ AddCommitted /\ last.pre.totalSupply > 0 /\ last.out1 > 0
  /\ (last.args.a * last.pre.totalSupply) \div last.pre.reserve1 > last.out1

\* C11: with totalSupply > 0, an addLiquidity of two positive amounts whose
\* share amount min(floor(amountToken1 * totalSupply / reserve1),
\* floor(amountToken2 * totalSupply / reserve2)) is 0 fails: nothing is
\* pulled from the provider and the reserves and the ledger stay as they were.
C11_ZeroSharesRejected ==
  (AddCall /\ last.pre.totalSupply > 0 /\ last.args.a > 0 /\ last.args.b > 0
     /\ Min((last.args.a * last.pre.totalSupply) \div last.pre.reserve1,
            (last.args.b * last.pre.totalSupply) \div last.pre.reserve2) = 0)
    => (last.status # "ok" /\ Cur = last.pre)

\* C12: in every pool state, an addLiquidity with amountToken1 = 0 or
\* amountToken2 = 0 fails and leaves reserves, share balances, totalSupply
\* and the tokens' books unchanged.
C12_ZeroAmountRejected ==
  (AddCall /\ (last.args.a = 0 \/ last.args.b = 0))
    => (last.status # "ok" /\ Cur = last.pre)

\* C13: when one of the two inbound transfers of an addLiquidity of two
\* positive amounts does not succeed (it returns false or reverts),
\* addLiquidity aborts: no shares are minted, reserves and totalSupply are
\* unchanged and no LiquidityAdded event is logged.
C13_AddAbortsOnTransferFailure ==
  (AddCall /\ last.args.a > 0 /\ last.args.b > 0
     /\ (last.args.oc1 # "ok" \/ last.args.oc2 # "ok"))
    => /\ last.status # "ok"
       /\ balances = last.pre.balances
       /\ totalSupply = last.pre.totalSupply
       /\ reserve1 = last.pre.reserve1
       /\ reserve2 = last.pre.reserve2
       /\ last.logs = << >>

RemoveCall == last.op = "removeLiquidity"
RemoveCommitted == RemoveCall /\ last.status = "ok"

\* C14: when one of the two outbound transfers of a removeLiquidity of a
\* positive share amount does not succeed (it returns false or reverts),
\* removeLiquidity is rolled back: the provider's shares are not burned,
\* totalSupply and both reserves keep their values and no LiquidityRemoved
\* event is logged.
C14_RemoveAbortsOnTransferFailure ==
  (RemoveCall /\ last.args.a > 0 /\ (last.args.oc1 # "ok" \/ last.args.oc2 # "ok"))
    => /\ last.status # "ok"
       /\ balances = last.pre.balances
       /\ totalSupply = last.pre.totalSupply
       /\ reserve1 = last.pre.reserve1
       /\ reserve2 = last.pre.reserve2
       /\ last.logs = << >>

\* C15: a committed removeLiquidity(liquidity) burns exactly liquidity shares
\* of the provider, pays the provider floor(liquidity * reserve1 / totalSupply)
\* of token1 and floor(liquidity * reserve2 / totalSupply) of token2, on the
\* values before the call, and lowers the reserves by exactly those amounts.
C15_RemoveCommit ==
  RemoveCommitted =>
    LET a == last.args
        s == last.pre
        amountToken1 == (a.a * s.reserve1) \div s.totalSupply
        amountToken2 == (a.a * s.reserve2) \div s.totalSupply
    IN /\ balances = [s.balances EXCEPT ![a.sender] = @ - a.a]
       /\ totalSupply = s.totalSupply - a.a
       /\ last.out1 = amountToken1
       /\ last.out2 = amountToken2
       /\ reserve1 = s.reserve1 - amountToken1
       /\ reserve2 = s.reserve2 - amountToken2
       /\ tokenBalance[token1][a.sender] = s.tokenBalance[token1][a.sender] + amountToken1
       /\ tokenBalance[token2][a.sender] = s.tokenBalance[token2][a.sender] + amountToken2

\* C16: removeLiquidity fails with "No liquidity available" when
\* totalSupply is 0, and with the ledger's insufficient-balance error when
\* the provider holds fewer shares than it asks to remove; in both cases
\* reserves, share balances, totalSupply and the tokens' books are unchanged
\* and nothing is logged.
C16_RemoveRejections ==
  RemoveCall =>
    /\ last.pre.totalSupply = 0 => last.status = "No liquidity available"
    /\ (last.pre.totalSupply > 0 /\ last.pre.balances[last.args.sender] < last.args.a)
         => last.status = "ERC20InsufficientBalance"
    /\ (last.pre.totalSupply = 0 \/ last.pre.balances[last.args.sender] < last.args.a)
         => (Cur = last.pre /\ last.logs = << >>)

\* a provider holding shares asked to remove more than it holds, while the
\* pool's total supply covered the amount
C16_Witness ==
  /\ RemoveCall /\ last.status = "ERC20InsufficientBalance"
  /\ last.pre.balances[last.args.sender] > 0
  /\ last.pre.totalSupply >= last.args.a

\* what removeLiquidity returns to the provider of the addLiquidity just
\* committed when it is called next, for the shares just minted, under the
\* transfer behaviour b
RoundTrip(b) == removeLiquidity(Cur, last.args.sender, last.out1, b[1], b[2])

\* C17: a committed addLiquidity(amountToken1, amountToken2) that minted m
\* shares, followed immediately by removeLiquidity(m) of the same provider,
\* returns at most amountToken1 of token1 and at most amountToken2 of token2.
C17_RoundTrip ==
  AddCommitted =>
    \A b \in Behaviours :
      RoundTrip(b).status = "ok"
        => (RoundTrip(b).out1 <= last.args.a /\ RoundTrip(b).out2 <= last.args.b)

\* a later deposit minted shares, and removing them at once commits and
\* returns less of token1 than was deposited
C17_Witness ==
  /\ AddCommitted /\ last.pre.totalSupply > 0 /\ last.out1 > 0
  /\ RoundTrip(<<"ok", "ok">>).status = "ok"
  /\ RoundTrip(<<"ok", "ok">>).out1 < last.args.a
  /\ RoundTrip(<<"ok", "ok">>).out2 > 0

RECURSIVE SumOver(_, _)
\* the sum of f over the holders in S
SumOver(f, S) ==
  IF S = {} THEN 0
  ELSE LET x == CHOOSE y \in S : TRUE IN f[x] + SumOver(f, S \ {x})

\* C18: in every reachable state, after any sequence of addLiquidity,
\* removeLiquidity and swapTokens calls, the share balances of all holders
\* sum to totalSupply and no balance is negative.
C18_LedgerConsistent ==
  /\ SumOver(balances, Users) = totalSupply
  /\ \A u \in Users : balances[u] >= 0

\* shares were minted and some of them burned again, leaving shares out
C18_Witness ==
  /\ RemoveCommitted /\ last.args.a > 0 /\ totalSupply > 0
  /\ totalSupply < last.pre.totalSupply

LedgerCall == last.op \in {"mint", "burn"}

\* C19: in every reachable state the pool is the only account that holds
\* the ledger's role; a mint or burn called on the ledger by any other
\* account fails as unauthorized and leaves every share balance and
\* totalSupply unchanged; and no call of grantRole by such an account succeeds.
C19_OnlyPoolControlsLedger ==
  /\ admins = {Pool}
  /\ (LedgerCall /\ last.args.sender # Pool)
       => /\ last.status = "AccessControlUnauthorizedAccount"
          /\ balances = last.pre.balances
          /\ totalSupply = last.pre.totalSupply
  /\ last.op = "grantRole" => (last.status # "ok" /\ admins = last.pre.admins)

\* an account that is not the pool tried to burn shares another holder has
C19_Witness ==
  /\ last.op = "burn" /\ last.args.sender # last.args.account
  /\ last.args.a > 0 /\ last.pre.balances[last.args.account] >= last.args.a

\* the tokens of a deployed pool, in either order
PairOf(pool) == {pool.token1, pool.token2}

\* C20: in every reachable registry state no two pools have the same
\* unordered pair of tokens, and getPair gives the same pool for both orders
\* of a pair; once a pool exists for tokens X and Y, createPairs(X, Y) and
\* createPairs(Y, X) fail with "Pair already exists" and change nothing; and
\* the getter getPair(X, Y) returns what getPair(Y, X) returns.
C20_RegistryUnique ==
  /\ \A i, j \in 1..Len(pools) : i # j => PairOf(pools[i]) # PairOf(pools[j])
  /\ \A x, y \in AnyToken : getPair[x][y] = getPair[y][x]
  /\ (last.op = "createPairs"
        /\ \E i \in 1..Len(last.pre.pools) :
             PairOf(last.pre.pools[i]) = {last.args.fromToken, last.args.toToken})
       => (last.status = "Pair already exists" /\ RegistryCur = last.pre)
  /\ last.op = "getPair"
       => last.out1 = getPairAt(last.pre, last.args.toToken, last.args.fromToken).out1

\* createPairs was called for a pair whose pool had been created with the
\* two tokens in the other order, after another pool had been created
C20_Witness ==
  /\ last.op = "createPairs" /\ last.status = "Pair already exists"
  /\ Len(pools) >= 2
  /\ \E i \in 1..Len(pools) :
       pools[i].token1 = last.args.toToken /\ pools[i].token2 = last.args.fromToken

CreateCall == last.op = "createPairs"
CreateCommitted == CreateCall /\ last.status = "ok"

\* a pool for the tokens x and y, in either order, exists in registry state s
HasPool(s, x, y) == \E i \in 1..Len(s.pools) : PairOf(s.pools[i]) = {x, y}

\* C21: createPairs(X, X) fails with "Identical address is not allowed"; a
\* createPairs that fails deploys no pool, leaves the getPair mapping and the
\* allPairs list as they were and logs no PairCreated event; and getPair for
\* a pair without a pool returns address(0).
C21_CreateRejections ==
  /\ CreateCall =>
       /\ last.args.fromToken = last.args.toToken
            => last.status = "Identical address is not allowed"
       /\ last.status # "ok"
            => /\ last.status \in {"Identical address is not allowed", "Pair already exists"}
               /\ pools = last.pre.pools
               /\ getPair = last.pre.getPair
               /\ allPairs = last.pre.allPairs
               /\ last.logs = << >>
  /\ (last.op = "getPair" /\ ~HasPool(last.pre, last.args.fromToken, last.args.toToken))
       => (last.status = "ok" /\ last.out1 = NoPool)

\* createPairs was called with the same token twice, a token that already
\* has a pool with another token
C21_Witness ==
  /\ CreateCall /\ last.args.fromToken = last.args.toToken /\ last.status # "ok"
  /\ \E y \in AnyToken : HasPool(RegistryCur, last.args.fromToken, y)

\* C22: the allPairs list only grows at its end: across every step the list
\* before is a prefix of the list after; a createPairs that succeeds appends
\* exactly the address it returns, which was not in the list; and no other
\* step changes the list.
C22_AppendOnly ==
  [][/\ Len(allPairs') >= Len(allPairs)
     /\ SubSeq(allPairs', 1, Len(allPairs)) = allPairs
     /\ IF last'.op = "createPairs" /\ last'.status = "ok"
        THEN /\ allPairs' = Append(allPairs, last'.out1)
             /\ \A i \in 1..Len(allPairs) : allPairs[i] # last'.out1
        ELSE allPairs' = allPairs]_vars

\* a second pool has been appended behind the first
C22_Witness ==
  /\ CreateCommitted /\ Len(last.pre.allPairs) >= 1
  /\ allPairs[Len(allPairs)] = last.out1

\* the registry before any pool is created, and the registry states that up
\* to three successful createPairs calls lead to (with three tokens, all of them)
EmptyRegistry ==
  [getPair |-> [x \in AnyToken |-> [y \in AnyToken |-> NoPool]],
   allPairs |-> << >>, pools |-> << >>]

Created(S) == S \cup {createPairs(s, x, y).st : s \in S, x \in AnyToken, y \in AnyToken}

RegistryStates == Created(Created(Created({EmptyRegistry})))

\* createPairs logs one PairCreated event naming the two tokens and the pool
\* it deployed and registered when it succeeds, and nothing when it fails
CreatePairsLogs ==
  \A s \in RegistryStates, x \in AnyToken, y \in AnyToken :
    LET r == createPairs(s, x, y)
    IN IF r.status = "ok"
       THEN /\ r.logs = <<Event("PairCreated", "none", x, y, r.out1)>>
            /\ r.st.pools[r.out1] = [token1 |-> x, token2 |-> y]
            /\ r.st.getPair[x][y] = r.out1
            /\ r.st.allPairs[Len(r.st.allPairs)] = r.out1
       ELSE r.logs = << >> /\ r.st = s

\* C24: a committed addLiquidity, removeLiquidity or swapTokens logs exactly
\* one event of its kind (LiquidityAdded, LiquidityRemoved, Swap), naming the
\* caller and carrying the amounts by which the call changed the reserves and
\* the ledger; a call that fails logs nothing, and an event is logged only
\* together with the state changes of its call; createPairs likewise logs
\* one PairCreated for the pool it registered, and nothing when it fails.
C24_Events ==
  /\ last.status # "ok" => last.logs = << >>
  /\ AddCommitted =>
       /\ Len(last.logs) = 1
       /\ last.logs[1].kind = "LiquidityAdded" /\ last.logs[1].who = last.args.sender
       /\ last.logs[1].x = reserve1 - last.pre.reserve1
       /\ last.logs[1].y = reserve2 - last.pre.reserve2
       /\ last.logs[1].z = totalSupply - last.pre.totalSupply
       /\ last.logs[1].z = balances[last.args.sender] - last.pre.balances[last.args.sender]
  /\ RemoveCommitted =>
       /\ Len(last.logs) = 1
       /\ last.logs[1].kind = "LiquidityRemoved" /\ last.logs[1].who = last.args.sender
       /\ last.logs[1].x = last.pre.reserve1 - reserve1
       /\ last.logs[1].y = last.pre.reserve2 - reserve2
       /\ last.logs[1].z = last.pre.totalSupply - totalSupply
       /\ last.logs[1].z = last.pre.balances[last.args.sender] - balances[last.args.sender]
  /\ SwapCommitted =>
       /\ Len(last.logs) = 1
       /\ last.logs[1].kind = "Swap" /\ last.logs[1].who = last.args.sender
       /\ last.logs[1].z = last.args.fromToken
       /\ last.logs[1].x = ReserveOf(Cur, last.args.fromToken)
                             - ReserveOf(last.pre, last.args.fromToken)
       /\ last.logs[1].y = ReserveOf(last.pre, last.args.toToken)
                             - ReserveOf(Cur, last.args.toToken)
  /\ CreateCommitted =>
       /\ last.logs = <<Event("PairCreated", "none", last.args.fromToken, last.args.toToken,
                              last.out1)>>
       /\ allPairs = Append(last.pre.allPairs, last.out1)
  /\ last.op \notin {"addLiquidity", "removeLiquidity", "swapTokens", "createPairs"}
       => last.logs = << >>
  /\ CreatePairsLogs

\* a removeLiquidity committed that paid out of both reserves and left
\* shares outstanding
C24_Witness ==
  /\ RemoveCommitted /\ last.logs[1].x > 0 /\ last.logs[1].y > 0
  /\ last.logs[1].z > 0 /\ totalSupply > 0

\* the registry's getters return what is stored and change nothing, in every
\* registry state of three tokens
RegistryGettersReadOnly ==
  \A s \in RegistryStates :
    /\ getPairs(s).st = s /\ getPairs(s).out1 = s.allPairs /\ getPairs(s).logs = << >>
    /\ allPairsLength(s).st = s /\ allPairsLength(s).logs = << >>
    /\ \A x \in AnyToken, y \in AnyToken :
         getPairAt(s, x, y).st = s /\ getPairAt(s, x, y).logs = << >>

\* C25: getExpectedOutput, getReserves, getPair and getPairs change nothing,
\* whether they return or fail: after any of them reserves, constantK, share
\* balances, totalSupply, the tokens' books, the registry's mapping and list
\* are what they were before the call and nothing is logged; and no call on
\* the registry changes the token pair of a pool that exists.
C25_ReadOnly ==
  /\ last.op \in {"getExpectedOutput", "getReserves"}
       => (Cur = last.pre /\ last.logs = << >>)
  /\ last.op \in {"getPair", "getPairs", "allPairsLength"}
       => (RegistryCur = last.pre /\ last.logs = << >>)
  /\ last.op \in {"createPairs", "getPair", "getPairs", "allPairsLength"}
       => \A i \in 1..Len(last.pre.pools) : pools[i] = last.pre.pools[i]
  /\ RegistryGettersReadOnly

\* getReserves was called on a pool whose reserves differ from what the pool
\* holds of token2
C25_Witness ==
  /\ last.op = "getReserves" /\ last.status = "ok"
  /\ last.out2 > 0 /\ last.out2 # tokenBalance[token2][Pool]

\* C26: in every pool state getExpectedOutput fails when fromToken is not a
\* token of the pool (with "Invalid fromToken" when amountIn > 0) and fails
\* with "AmountIn must be greater than 0" when amountIn = 0; for a token of
\* the pool and amountIn > 0 it returns a value, in a pool with liquidity as
\* in one without.
C26_QuoteRejections ==
  QuoteCall =>
    /\ last.args.a = 0 => last.status = "AmountIn must be greater than 0"
    /\ last.args.fromToken \notin Tokens => last.status # "ok"
    /\ (last.args.fromToken \notin Tokens /\ last.args.a > 0)
         => last.status = "Invalid fromToken"
    /\ (last.args.fromToken \in Tokens /\ last.args.a > 0)
         => (last.status = "ok" /\ last.out1 >= 0)

\* a quote was asked for a foreign token from a pool with liquidity
C26_Witness ==
  /\ QuoteCall /\ last.status = "Invalid fromToken"
  /\ last.pre.totalSupply > 0 /\ last.pre.reserve1 > 0 /\ last.pre.reserve2 > 0

\* getExpectedOutput on state s with constantK recomputed from the reserves
FreshQuote(s, fromToken, amountIn) ==
  getExpectedOutput([s EXCEPT !.constantK = s.reserve1 * s.reserve2], fromToken, amountIn)

\* C27: in every reachable state constantK = reserve1 * reserve2, and the
\* quote computed from the stored constantK is the quote computed from the
\* product of the reserves.
C27_ConstantNeverStale ==
  /\ constantK = reserve1 * reserve2
  /\ \A tk \in Tokens, amountIn \in 1..MaxAmount :
       getExpectedOutput(Cur, tk, amountIn).out1 = FreshQuote(Cur, tk, amountIn).out1

\* all liquidity has been removed from a pool that had a positive constantK
C27_Witness ==
  /\ RemoveCommitted /\ last.pre.constantK > 0
  /\ reserve1 = 0 /\ reserve2 = 0 /\ constantK = 0

\* C28: a swap commits only when reserveIn + amountIn divides the product
\* of the reserves before the swap, and a committed swap leaves
\* reserve1 * reserve2 equal to that product; a swap that does not commit
\* changes nothing.
C28_SwapExactOnly ==
  SwapCall =>
    LET reserveIn == ReserveOf(last.pre, last.args.fromToken)
        product == last.pre.reserve1 * last.pre.reserve2
    IN /\ last.status = "ok" =>
            /\ product % (reserveIn + last.args.a) = 0
            /\ reserve1 * reserve2 = product
       /\ last.status # "ok" => Cur = last.pre

\* a swap was rejected by the check of line 170 because reserveIn + amountIn
\* does not divide the product
C28_Witness ==
  /\ SwapCall /\ last.status = "Swap does not preserve constant formula (reserves)"
  /\ (last.pre.reserve1 * last.pre.reserve2) % (last.pre.reserve1 + last.args.a) # 0

\* C29: in every reachable state totalSupply = 0 exactly when reserve1 = 0
\* and reserve2 = 0, and totalSupply > 0 implies that both reserves are
\* positive; hence a first deposit never overwrites reserves that are not 0
\* and a later deposit never divides by a reserve of 0.
C29_SupplyAndReserves ==
  /\ totalSupply = 0 <=> (reserve1 = 0 /\ reserve2 = 0)
  /\ totalSupply > 0 => (reserve1 > 0 /\ reserve2 > 0)
  /\ AddCall =>
       /\ last.status # "division by zero"
       /\ last.pre.totalSupply = 0 => (last.pre.reserve1 = 0 /\ last.pre.reserve2 = 0)

\* after shares were removed the pool still has shares out and a reserve of
\* exactly 1
C29_Witness ==
  /\ RemoveCommitted /\ last.args.a > 0 /\ totalSupply > 0
  /\ (reserve1 = 1 \/ reserve2 = 1)

LiquidityCommitted == AddCommitted \/ RemoveCommitted

\* C30: for every committed addLiquidity or removeLiquidity that starts
\* with totalSupply > 0 and ends with totalSupply > 0, and for both tokens,
\* reserve' * totalSupply >= reserve * totalSupply': the reserve behind each
\* outstanding share does not decrease.
C30_NoDilution ==
  (LiquidityCommitted /\ last.pre.totalSupply > 0 /\ totalSupply > 0)
    => /\ reserve1 * last.pre.totalSupply >= last.pre.reserve1 * totalSupply
       /\ reserve2 * last.pre.totalSupply >= last.pre.reserve2 * totalSupply

\* a removeLiquidity left shares out and raised the reserve of token1 behind
\* each of them, the amount paid having been rounded down
C30_Witness ==
  /\ RemoveCommitted /\ last.args.a > 0 /\ totalSupply > 0
  /\ reserve1 * last.pre.totalSupply > last.pre.reserve1 * totalSupply

\* a call run in two halves with nothing in between ends as the same call
\* run as one piece
HalvesAgree ==
  (frame.pc = "done" /\ frame.nested.op = "none")
    => LET r == Atomic(frame.op, frame.start, frame.args)
       IN /\ (last.status = "ok") <=> (r.status = "ok")
          /\ Cur = r.st /\ last.logs = r.logs /\ last.out1 = r.out1

\* the states that running the call of frame f and the call made inside it
\* one after the other, in either order, each applied or discarded, lead to
SerialOutcomes(f) ==
  LET s == f.start
      outer(x) == Atomic(f.op, x, f.args).st
      inner(x) == Atomic(f.nested.op, x, f.nested.args).st
  IN {s, outer(s), inner(s), inner(outer(s)), outer(inner(s))}

\* C23: a call made on the pool while addLiquidity, removeLiquidity or
\* swapTokens is inside a transfer never runs against a state in which that
\* call has made a transfer but not its reserve and ledger updates, or the
\* reverse: it finds the state from before the call in progress or the state
\* after it; and when the call in progress has ended, the pool is in a state
\* that the two calls run one after the other, each applied or discarded,
\* lead to.
C23_NoInterleaving ==
  /\ frame.nested.op # "none"
       => frame.nested.pre \in {frame.start, Atomic(frame.op, frame.start, frame.args).st}
  /\ (frame.pc = "done" /\ frame.nested.op # "none") => Cur \in SerialOutcomes(frame)

\* what the pool holds of a token at the token contract
Holding(token) == tokenBalance[token][Pool]

\* C31: in every state each tracked reserve is at most what the pool holds
\* of that token at the token contract, also when the token's transfers may
\* report failure, and a committed addLiquidity that mints shares has
\* received both deposited amounts.
C31_Solvency ==
  /\ reserve1 <= Holding(token1)
  /\ reserve2 <= Holding(token2)
  /\ (AddCommitted /\ last.out1 > 0)
       => /\ Holding(token1) = last.pre.tokenBalance[token1][Pool] + last.args.a
          /\ Holding(token2) = last.pre.tokenBalance[token2][Pool] + last.args.b

\* the amounts a quote can be asked for
QuoteAmounts == 1..MaxAmount

\* C32: no swap drains a reserve.  In every state the quote for a positive
\* amount of either token of the pair is computed without underflow and is
\* at most the reserve it would be paid from; a committed swap pays out
\* strictly less than that reserve was and leaves both reserves strictly
\* positive; and a swap against a pool with no liquidity fails and changes
\* nothing.
C32_NoDrain ==
  /\ \A t \in Tokens, a \in QuoteAmounts :
       LET q == getExpectedOutput(Cur, t, a)
       IN q.status = "ok" /\ q.out1 <= ReserveOf(Cur, OtherOf(t))
  /\ SwapCommitted
       => /\ last.out1 < ReserveOf(last.pre, last.args.toToken)
          /\ reserve1 > 0
          /\ reserve2 > 0
  /\ (SwapCall /\ (last.pre.totalSupply = 0 \/ last.pre.reserve1 = 0 \/ last.pre.reserve2 = 0))
       => (last.status # "ok" /\ Cur = last.pre /\ last.logs = << >>)

\* a swap has just paid out part of a reserve, and the pool it leaves
\* still quotes a positive amount
C32_Witness ==
  /\ SwapCommitted
  /\ last.out1 > 0
  /\ last.out1 < ReserveOf(last.pre, last.args.toToken)
  /\ \E t \in Tokens, a \in QuoteAmounts : getExpectedOutput(Cur, t, a).out1 > 0

\* a swap has just been refused by a pool with no liquidity that holds
\* more of the requested token than was asked for
C32_EmptyPoolWitness ==
  /\ SwapCall
  /\ last.pre.totalSupply = 0
  /\ last.args.a > 0 /\ last.args.b > 0
  /\ last.args.fromToken = token1 /\ last.args.toToken = token2
  /\ last.pre.tokenBalance[token2][Pool] > last.args.b
  /\ last.status # "ok"

====
